---- MODULE Spec2Model ----
(***************************************************************************)
(* A model of the online bookstore: the Cart, User, Order and              *)
(* PaymentGateway classes of models.py and the request handlers of app.py. *)
(*                                                                         *)
(* Text values are sequences of one-character strings, so that strip(),    *)
(* lower(), upper(), replace(" ", ""), endswith() and the regular          *)
(* expressions are computed as the code computes them.  Prices and totals  *)
(* are Python floats: IEEE-754 binary64 values, round-to-nearest-even,     *)
(* modelled exactly on arbitrary-precision naturals.  Requests are served  *)
(* one at a time: a handler, with every call it makes, is one step.        *)
(***************************************************************************)
EXTENDS Integers, Sequences, FiniteSets, TLC

(***************************************************************************)
(* Arbitrary-precision naturals: little-endian sequences of limbs, without *)
(* leading zero limbs; <<>> is zero.                                       *)
(***************************************************************************)
LimbBits == 12
Base == 2 ^ LimbBits

Max(a, b) == IF a >= b THEN a ELSE b
Min(a, b) == IF a <= b THEN a ELSE b

RECURSIVE Norm(_)
Norm(a) ==
    IF a = <<>> THEN a
    ELSE IF a[Len(a)] = 0 THEN Norm(SubSeq(a, 1, Len(a) - 1)) ELSE a

RECURSIVE FromNat(_)
FromNat(n) == IF n = 0 THEN <<>> ELSE <<n % Base>> \o FromNat(n \div Base)

Limb(a, i) == IF i <= Len(a) THEN a[i] ELSE 0

RECURSIVE NAddFrom(_, _, _, _)
NAddFrom(a, b, i, c) ==
    IF i > Len(a) /\ i > Len(b)
    THEN (IF c = 0 THEN <<>> ELSE <<c>>)
    ELSE LET s == Limb(a, i) + Limb(b, i) + c
         IN  <<s % Base>> \o NAddFrom(a, b, i + 1, s \div Base)

NAdd(a, b) == NAddFrom(a, b, 1, 0)

\* a - b for a >= b
RECURSIVE NSubFrom(_, _, _, _)
NSubFrom(a, b, i, c) ==
    IF i > Len(a) THEN <<>>
    ELSE LET s == a[i] - Limb(b, i) - c
         IN  IF s < 0 THEN <<s + Base>> \o NSubFrom(a, b, i + 1, 1)
                      ELSE <<s>> \o NSubFrom(a, b, i + 1, 0)

NSub(a, b) == Norm(NSubFrom(a, b, 1, 0))

\* a * k for a small natural k (k < 2^18)
RECURSIVE NMulSmallFrom(_, _, _, _)
NMulSmallFrom(a, k, i, c) ==
    IF i > Len(a) THEN FromNat(c)
    ELSE LET s == a[i] * k + c
         IN  <<s % Base>> \o NMulSmallFrom(a, k, i + 1, s \div Base)

NMulSmall(a, k) == Norm(NMulSmallFrom(a, k, 1, 0))

Zeros(n) == [i \in 1..n |-> 0]

\* a shifted left by whole limbs
NShlLimbs(a, n) == IF a = <<>> THEN a ELSE Zeros(n) \o a

RECURSIVE NMulFrom(_, _, _)
NMulFrom(a, b, i) ==
    IF i > Len(b) THEN <<>>
    ELSE NAdd(NShlLimbs(NMulSmall(a, b[i]), i - 1), NMulFrom(a, b, i + 1))

NMul(a, b) == Norm(NMulFrom(a, b, 1))

\* a divided by a small natural d (0 < d < 2^18): quotient q and remainder r
RECURSIVE NDivTo(_, _, _, _)
NDivTo(a, d, i, rem) ==
    IF i = 0 THEN [q |-> <<>>, r |-> rem]
    ELSE LET cur == rem * Base + a[i]
             rest == NDivTo(a, d, i - 1, cur % d)
         IN  [q |-> Append(rest.q, cur \div d), r |-> rest.r]

NDivSmall(a, d) ==
    LET res == NDivTo(a, d, Len(a), 0) IN [q |-> Norm(res.q), r |-> res.r]

RECURSIVE BitLenSmall(_)
BitLenSmall(n) == IF n = 0 THEN 0 ELSE 1 + BitLenSmall(n \div 2)

NBitLen(a) ==
    IF a = <<>> THEN 0 ELSE LimbBits * (Len(a) - 1) + BitLenSmall(a[Len(a)])

NShl(a, s) == NShlLimbs(NMulSmall(a, 2 ^ (s % LimbBits)), s \div LimbBits)

\* floor(a / 2^s)
NShr(a, s) ==
    LET k == s \div LimbBits
        hi == IF k >= Len(a) THEN <<>> ELSE SubSeq(a, k + 1, Len(a))
    IN  NDivSmall(hi, 2 ^ (s % LimbBits)).q

\* -1, 0, 1 as a < b, a = b, a > b (both without leading zero limbs)
RECURSIVE NCmpAt(_, _, _)
NCmpAt(a, b, i) ==
    IF i = 0 THEN 0
    ELSE IF a[i] < b[i] THEN -1
    ELSE IF a[i] > b[i] THEN 1
    ELSE NCmpAt(a, b, i - 1)

NCmp(a, b) ==
    IF Len(a) < Len(b) THEN -1
    ELSE IF Len(a) > Len(b) THEN 1
    ELSE NCmpAt(a, b, Len(a))

NOdd(a) == a # <<>> /\ a[1] % 2 = 1

(***************************************************************************)
(* Python floats (binary64), non-negative and finite: [m, e] is m * 2^e    *)
(* with m an integer of exactly MantBits bits; zero is [m |-> <<>>, e |->  *)
(* 0].  The representation is canonical: two floats are equal exactly when *)
(* their records are.                                                      *)
(***************************************************************************)
MantBits == 53

FZero == [m |-> <<>>, e |-> 0]

\* The float nearest to (n + f) * 2^e, ties to even, where 0 <= f < 1 and
\* sticky says f > 0 (then n has more than MantBits bits).
FRound(n, e, sticky) ==
    IF n = <<>> THEN FZero
    ELSE LET len == NBitLen(n)
         IN  IF len <= MantBits
             THEN [m |-> NShl(n, MantBits - len), e |-> e - (MantBits - len)]
             ELSE LET s == len - MantBits
                      q == NShr(n, s)
                      rem == NSub(n, NShl(q, s))
                      half == NShl(<<1>>, s - 1)
                      cmp == NCmp(rem, half)
                      up == cmp > 0 \/ (cmp = 0 /\ (sticky \/ NOdd(q)))
                      r == IF up THEN NAdd(q, <<1>>) ELSE q
                  IN  IF NBitLen(r) > MantBits
                      THEN [m |-> NShr(r, 1), e |-> e + s + 1]
                      ELSE [m |-> r, e |-> e + s]

FFromInt(n) == FRound(FromNat(n), 0, FALSE)

\* the float a decimal literal num/den denotes (den < 2^10)
FFromRatio(num, den) ==
    LET d == NDivSmall(NShlLimbs(num, 6), den)
    IN  FRound(d.q, 0 - 6 * LimbBits, d.r # 0)

FAdd(x, y) ==
    IF x.m = <<>> THEN y
    ELSE IF y.m = <<>> THEN x
    ELSE LET mn == Min(x.e, y.e)
         IN  FRound(NAdd(NShl(x.m, x.e - mn), NShl(y.m, y.e - mn)), mn, FALSE)

\* x - y for x >= y
FSub(x, y) ==
    IF y.m = <<>> THEN x
    ELSE LET mn == Min(x.e, y.e)
         IN  FRound(NSub(NShl(x.m, x.e - mn), NShl(y.m, y.e - mn)), mn, FALSE)

FMul(x, y) == FRound(NMul(x.m, y.m), x.e + y.e, FALSE)

(***************************************************************************)
(* Text.  A str is a sequence of one-character strings; None (a missing    *)
(* form field) is the one-element sequence <<"None">>, which no str equals.*)
(***************************************************************************)
None == <<"None">>

WhiteSpace == {" ", "\t"}
Digits == <<"0", "1", "2", "3", "4", "5", "6", "7", "8", "9">>
UpperChars == <<"A", "B", "C", "D", "E", "F", "G", "H", "I", "J", "K", "L", "M", "N", "O", "P", "Q", "R", "S", "T", "U", "V", "W", "X", "Y", "Z">>
LowerChars == <<"a", "b", "c", "d", "e", "f", "g", "h", "i", "j", "k", "l", "m", "n", "o", "p", "q", "r", "s", "t", "u", "v", "w", "x", "y", "z">>

Range(s) == {s[i] : i \in DOMAIN s}
DigitSet == Range(Digits)
UpperSet == Range(UpperChars)
LowerSet == Range(LowerChars)
IsDigitChar(c) == c \in DigitSet
IsAlphaChar(c) == c \in UpperSet \/ c \in LowerSet
DigitVal(c) == (CHOOSE i \in DOMAIN Digits : Digits[i] = c) - 1

\* value or ""
OrEmpty(value) == IF value = None THEN <<>> ELSE value

\* str.strip()
RECURSIVE LStrip(_)
LStrip(s) == IF s # <<>> /\ s[1] \in WhiteSpace THEN LStrip(Tail(s)) ELSE s

RECURSIVE RStrip(_)
RStrip(s) ==
    IF s # <<>> /\ s[Len(s)] \in WhiteSpace
    THEN RStrip(SubSeq(s, 1, Len(s) - 1)) ELSE s

Strip(s) == RStrip(LStrip(s))

\* str.lower(), str.upper()
LowerChar(c) ==
    IF c \in UpperSet
    THEN LowerChars[CHOOSE i \in DOMAIN UpperChars : UpperChars[i] = c] ELSE c

UpperChar(c) ==
    IF c \in LowerSet
    THEN UpperChars[CHOOSE i \in DOMAIN LowerChars : LowerChars[i] = c] ELSE c

Lower(s) == [i \in DOMAIN s |-> LowerChar(s[i])]
Upper(s) == [i \in DOMAIN s |-> UpperChar(s[i])]

\* str.replace(" ", "")
RECURSIVE RemoveSpaces(_)
RemoveSpaces(s) ==
    IF s = <<>> THEN s
    ELSE IF s[1] = " " THEN RemoveSpaces(Tail(s))
    ELSE <<s[1]>> \o RemoveSpaces(Tail(s))

\* str.isdigit() on the characters modelled
IsDigitStr(s) == s # <<>> /\ \A i \in DOMAIN s : IsDigitChar(s[i])

\* str.endswith(suffix)
EndsWith(s, suffix) ==
    Len(s) >= Len(suffix) /\ SubSeq(s, Len(s) - Len(suffix) + 1, Len(s)) = suffix

sanitize_text(value) == Strip(OrEmpty(value))

\* ^[A-Za-z0-9._%+\-]+@[A-Za-z0-9.\-]+\.[A-Za-z]{2,}$ on the stripped text
LocalChar(c) == IsAlphaChar(c) \/ IsDigitChar(c) \/ c \in {".", "_", "%", "+", "-"}
DomainChar(c) == IsAlphaChar(c) \/ IsDigitChar(c) \/ c \in {".", "-"}

is_valid_email(email) ==
    LET s == Strip(OrEmpty(email))
    IN  \E at \in DOMAIN s, dot \in DOMAIN s :
            /\ s[at] = "@"
            /\ s[dot] = "."
            /\ 1 < at
            /\ at + 1 < dot
            /\ dot + 2 <= Len(s)
            /\ \A i \in 1..(at - 1) : LocalChar(s[i])
            /\ \A i \in (at + 1)..(dot - 1) : DomainChar(s[i])
            /\ \A i \in (dot + 1)..Len(s) : IsAlphaChar(s[i])

(***************************************************************************)
(* Python values a quantity argument can be: an int, a str or None.        *)
(***************************************************************************)
PyInt(n) == [kind |-> "int", v |-> n, s |-> <<>>]
PyStr(s) == [kind |-> "str", v |-> 0, s |-> s]
PyNone == [kind |-> "none", v |-> 0, s |-> <<>>]

RECURSIVE DecimalValue(_)
DecimalValue(s) ==
    IF s = <<>> THEN 0
    ELSE 10 * DecimalValue(SubSeq(s, 1, Len(s) - 1)) + DigitVal(s[Len(s)])

\* int(str): optional surrounding whitespace, optional sign, decimal digits;
\* ok is FALSE where int() raises ValueError
ParseInt(str) ==
    LET s == Strip(str)
        signed == s # <<>> /\ s[1] \in {"+", "-"}
        body == IF signed THEN Tail(s) ELSE s
    IN  IF IsDigitStr(body)
        THEN [ok |-> TRUE,
              v |-> IF signed /\ s[1] = "-" THEN 0 - DecimalValue(body)
                    ELSE DecimalValue(body)]
        ELSE [ok |-> FALSE, v |-> 0]

\* int(value); ok is FALSE where it raises TypeError or ValueError
ToInt(value) ==
    IF value.kind = "int" THEN [ok |-> TRUE, v |-> value.v]
    ELSE IF value.kind = "str" THEN ParseInt(value.s)
    ELSE [ok |-> FALSE, v |-> 0]

(***************************************************************************)
(* The catalog (app.py BOOKS).  A Book is its title and its price, the     *)
(* float its decimal literal denotes; category and image path are carried  *)
(* by no operation.  A CartItem refers to its Book by the catalog index.   *)
(***************************************************************************)
Gatsby == <<"T", "h", "e", " ", "G", "r", "e", "a", "t", " ", "G", "a", "t", "s", "b", "y">>
NineteenEightyFour == <<"1", "9", "8", "4">>
IChing == <<"I", " ", "C", "h", "i", "n", "g">>
MobyDick == <<"M", "o", "b", "y", " ", "D", "i", "c", "k">>

\* the catalog prices in cents: 10.99, 8.99, 18.99, 12.49
PriceCents == <<1099, 899, 1899, 1249>>

BOOKS ==
    << [title |-> Gatsby, price |-> FFromRatio(FromNat(PriceCents[1]), 100)],
       [title |-> NineteenEightyFour, price |-> FFromRatio(FromNat(PriceCents[2]), 100)],
       [title |-> IChing, price |-> FFromRatio(FromNat(PriceCents[3]), 100)],
       [title |-> MobyDick, price |-> FFromRatio(FromNat(PriceCents[4]), 100)] >>

NoBook == 0

\* next((b for b in BOOKS if b.title == title), None), as a catalog index
get_book_by_title(title) ==
    LET t == Strip(OrEmpty(title))
        hits == {i \in DOMAIN BOOKS : BOOKS[i].title = t}
    IN  IF hits = {} THEN NoBook ELSE CHOOSE i \in hits : \A j \in hits : i <= j

(***************************************************************************)
(* Cart.  Cart.items is a dict: here the sequence of its entries [title,   *)
(* ref] in insertion order, ref naming a CartItem object of the heap.  The *)
(* heap maps each live reference to the object [book, quantity]; objects   *)
(* are shared by reference and mutated in place, as in the code.           *)
(***************************************************************************)
HasKey(items, title) == \E i \in DOMAIN items : items[i].title = title
KeyIndex(items, title) == CHOOSE i \in DOMAIN items : items[i].title = title
RefOf(items, title) == items[KeyIndex(items, title)].ref

\* del d[title]
DelKey(items, title) == SelectSeq(items, LAMBDA e : e.title # title)

\* a reference no live object has
NewRef(hp) == CHOOSE r \in 1..(Cardinality(DOMAIN hp) + 1) :
                  r \notin DOMAIN hp /\ \A s \in 1..(r - 1) : s \in DOMAIN hp

\* a faulty variant: the quantity is taken as given
EffectiveQuantityUnclamped(q) == q

\* if q < 1: q = 1
EffectiveQuantity(q) == IF q < 1 THEN 1 ELSE q

\* int(quantity), 1 when it raises
IntOrOne(quantity) == LET r == ToInt(quantity) IN IF r.ok THEN r.v ELSE 1

\* a faulty variant: quantity = q
AccumulateOverwrites(old, q) == q

\* quantity += q
Accumulate(old, q) == old + q

\* a faulty variant: a quantity of 0 is stored
RemovesLineOnlyNegative(q) == q < 0

\* if q <= 0: del self.items[book_title]
RemovesLine(q) == q <= 0

\* Cart.add_book(book, quantity): the items and the heap afterwards
add_book(items, hp, book, quantity) ==
    LET q == EffectiveQuantity(IntOrOne(quantity))
        title == BOOKS[book].title
    IN  IF HasKey(items, title)
        THEN [items |-> items,
              heap |-> [hp EXCEPT ![RefOf(items, title)].quantity = Accumulate(@, q)]]
        ELSE LET r == NewRef(hp)
             IN  [items |-> Append(items, [title |-> title, ref |-> r]),
                  heap |-> [x \in DOMAIN hp \cup {r} |->
                               IF x = r THEN [book |-> book, quantity |-> q]
                               ELSE hp[x]]]

\* Cart.remove_book(book_title)
remove_book(items, hp, book_title) ==
    [items |-> IF HasKey(items, book_title) THEN DelKey(items, book_title) ELSE items,
     heap |-> hp]

\* Cart.update_quantity(book_title, quantity)
update_quantity(items, hp, book_title, quantity) ==
    LET q == IntOrOne(quantity)
    IN  IF HasKey(items, book_title)
        THEN IF RemovesLine(q)
             THEN [items |-> DelKey(items, book_title), heap |-> hp]
             ELSE [items |-> items,
                   heap |-> [hp EXCEPT ![RefOf(items, book_title)].quantity = q]]
        ELSE [items |-> items, heap |-> hp]

\* a faulty variant: the cart keeps its entries
clearKeepsItems(items) == items

\* Cart.clear(): self.items = {}
clear(items) == <<>>

\* Cart.get_items(): list(self.items.values())
get_items(items) == [i \in DOMAIN items |-> items[i].ref]

\* Cart.is_empty()
is_empty(items) == Len(items) = 0

\* CartItem price * quantity, as floats
LinePrice(item) == FMul(BOOKS[item.book].price, FFromInt(item.quantity))

\* sum(item.book.price * item.quantity for item in self.items.values()):
\* 0 + first + second + ..., left to right in the dict's order
RECURSIVE SumLines(_, _, _)
SumLines(items, hp, n) ==
    IF n = 0 THEN FZero
    ELSE FAdd(SumLines(items, hp, n - 1), LinePrice(hp[items[n].ref]))

get_total_price(items, hp) == SumLines(items, hp, Len(items))

\* calculate_cart_total(cart)
calculate_cart_total(items, hp) == get_total_price(items, hp)

(***************************************************************************)
(* User: password policy and hashing.  werkzeug's generate_password_hash / *)
(* check_password_hash are the trusted primitive: a hash verifies exactly  *)
(* the text it was made from.                                              *)
(***************************************************************************)
generate_password_hash(raw) == [hashed |-> raw]
check_password_hash(hash, raw) == hash = generate_password_hash(raw)

FallbackPassword == <<"x", "x", "x", "x">>

\* User.set_password(raw_password): the hash stored
set_password(raw_password) ==
    LET raw == Strip(OrEmpty(raw_password))
    IN  generate_password_hash(IF Len(raw) < 4 THEN FallbackPassword ELSE raw)

\* User.check_password(raw_password)
check_password(user, raw_password) ==
    check_password_hash(user.password_hash, Strip(OrEmpty(raw_password)))

\* User(email, password, name, address)
User(email, password, name, address) ==
    [email |-> Strip(OrEmpty(email)),
     password_hash |-> set_password(password),
     name |-> name,
     address |-> address,
     orders |-> <<>>]

\* a faulty variant: the email keys the account as typed
UserKeyAsGiven(email) == email

\* key = email.lower(): the key an account is stored and looked up under
UserKey(email) == Lower(email)

\* list.sort(key=order_date): a stable sort of order references by date
RECURSIVE SortByDate(_, _)
SortByDate(refs, objs) ==
    IF refs = <<>> THEN refs
    ELSE LET init == SortByDate(SubSeq(refs, 1, Len(refs) - 1), objs)
             x == refs[Len(refs)]
             keep == {i \in DOMAIN init : objs[init[i]].order_date <= objs[x].order_date}
             k == Cardinality({i \in DOMAIN init : \A j \in 1..i : j \in keep})
         IN  SubSeq(init, 1, k) \o <<x>> \o SubSeq(init, k + 1, Len(init))

\* User.add_order(order): the history afterwards
add_order(history, order, objs) == SortByDate(Append(history, order), objs)

(***************************************************************************)
(* PaymentGateway                                                          *)
(***************************************************************************)
RejectSuffix == <<"1", "1", "1", "1">>
CreditCard == <<"c", "r", "e", "d", "i", "t", "_", "c", "a", "r", "d">>
PayPal == <<"p", "a", "y", "p", "a", "l">>

_valid_card_number(num) ==
    LET n == RemoveSpaces(OrEmpty(num))
    IN  IsDigitStr(n) /\ 12 <= Len(n) /\ Len(n) <= 19

\* ^(0[1-9]|1[0-2])\/(\d{2}|\d{4})$
_valid_expiry(exp) ==
    LET s == Strip(OrEmpty(exp))
    IN  /\ Len(s) \in {5, 7}
        /\ \/ s[1] = "0" /\ IsDigitChar(s[2]) /\ s[2] # "0"
           \/ s[1] = "1" /\ s[2] \in {"0", "1", "2"}
        /\ s[3] = "/"
        /\ \A i \in 4..Len(s) : IsDigitChar(s[i])

_valid_cvv(cvv) ==
    LET s == Strip(OrEmpty(cvv))
    IN  IsDigitStr(s) /\ 3 <= Len(s) /\ Len(s) <= 4

\* the hard-coded rejection rule: card_number.endswith('1111')
RejectedCard(card_number) == EndsWith(card_number, RejectSuffix)

Declined(message) == [success |-> FALSE, message |-> message, transaction_id |-> "None"]

\* PaymentGateway.process_payment(payment_info).  The transaction id is "TXN"
\* and six random digits; the digits are not modelled, nothing reads them.
process_payment(payment_info) ==
    LET method == Lower(Strip(OrEmpty(payment_info.payment_method)))
        card_number == Strip(OrEmpty(payment_info.card_number))
        expiry == Strip(OrEmpty(payment_info.expiry_date))
        cvv == Strip(OrEmpty(payment_info.cvv))
        paypal_email == Strip(OrEmpty(payment_info.paypal_email))
        approved == [success |-> TRUE, message |-> "Payment processed successfully",
                     transaction_id |-> "TXN{n}"]
    IN  IF method = CreditCard
        THEN IF ~(_valid_card_number(card_number) /\ _valid_expiry(expiry)
                  /\ _valid_cvv(cvv))
             THEN Declined("Payment failed: invalid card details.")
             ELSE IF RejectedCard(card_number)
             THEN Declined("Payment failed: Invalid card number.")
             ELSE approved
        ELSE IF method = PayPal
        THEN IF ~is_valid_email(paypal_email)
             THEN Declined("Payment failed: invalid PayPal email.")
             ELSE approved
        ELSE Declined("Payment failed: unsupported payment method.")

(***************************************************************************)
(* Discounts (process_checkout)                                            *)
(***************************************************************************)
SAVE10 == <<"S", "A", "V", "E", "1", "0">>
WELCOME20 == <<"W", "E", "L", "C", "O", "M", "E", "2", "0">>

\* DISCOUNTS = {'SAVE10': 0.10, 'WELCOME20': 0.20}
DISCOUNTS ==
    (SAVE10 :> FFromRatio(FromNat(10), 100)) @@ (WELCOME20 :> FFromRatio(FromNat(20), 100))

\* (request.form.get('discount_code', '') or '').strip().upper()
NormalizeCode(raw) == Upper(Strip(OrEmpty(raw)))

\* discount_code in DISCOUNTS
KnownCode(code) == code \in DOMAIN DISCOUNTS

\* the total after the discount block, and what the block flashes
DiscountedTotal(total_amount, code) ==
    IF code # <<>> /\ KnownCode(code)
    THEN FSub(total_amount, FMul(total_amount, DISCOUNTS[code]))
    ELSE total_amount

\* a faulty variant: an unknown code is passed over in silence
DiscountNoticesNoWarning(code) ==
    IF code # <<>> /\ KnownCode(code)
    THEN << <<"success", "Discount applied! You saved ${discount_applied:.2f}">> >>
    ELSE <<>>

\* what the discount block flashes
DiscountNotices(code) ==
    IF code = <<>> THEN <<>>
    ELSE IF KnownCode(code) THEN << <<"success", "Discount applied! You saved ${discount_applied:.2f}">> >>
    ELSE << <<"error", "Invalid discount code.">> >>

(***************************************************************************)
(* State                                                                   *)
(***************************************************************************)
VARIABLES
    cart,        \* cart.items: the entries [title, ref] in insertion order
    heap,        \* the live CartItem objects: ref -> [book, quantity]
    users,       \* users: key -> User
    orders,      \* orders: order_id -> reference of an Order object
    orderObjs,   \* the Order objects created so far; a reference is an index
    session,     \* the browser session: user_email and last_order_id
    notices,     \* what the last request flashed
    last,        \* the last request handled
    before       \* the cart's lines as the last request found them

vars == <<cart, heap, users, orders, orderObjs, session, notices, last, before>>

NoOrder == 0

\* bounds of the model: the largest quantity a line reaches, the number of
\* orders placed
MaxQty == 2
MaxOrders == 2

\* the lines of a cart: title and quantity, in the dict's order
CartView(items, hp) ==
    [i \in DOMAIN items |-> [title |-> items[i].title, quantity |-> hp[items[i].ref].quantity]]

\* CartItem objects no cart entry and no order refers to are freed
Collect(hp, items, objs) ==
    LET used == {items[i].ref : i \in DOMAIN items}
                \cup UNION {Range(objs[o].items) : o \in DOMAIN objs}
    IN  [r \in DOMAIN hp \cap used |-> hp[r]]

DemoEmail == <<"d", "e", "m", "o", "@", "b", "o", "o", "k", "s", "t", "o", "r", "e", ".", "c", "o", "m">>
DemoPassword == <<"d", "e", "m", "o", "1", "2", "3">>
DemoName == <<"D", "e", "m", "o", " ", "U", "s", "e", "r">>
DemoAddress == <<"1", "2", "3", " ", "D", "e", "m", "o", " ", "S", "t", "r", "e", "e", "t", ",", " ", "D", "e", "m", "o", " ", "C", "i", "t", "y", ",", " ", "D", "C", " ", "1", "2", "3", "4", "5">>

demo_user == User(DemoEmail, DemoPassword, DemoName, DemoAddress)

EmptyMap == [x \in {} |-> 0]

Init ==
    /\ cart = <<>>
    /\ heap = EmptyMap
    /\ users = (Lower(demo_user.email) :> demo_user)
    /\ orders = EmptyMap
    /\ orderObjs = <<>>
    /\ session = [user_email |-> None, last_order_id |-> NoOrder]
    /\ notices = <<>>
    /\ last = [op |-> "start"]
    /\ before = <<>>

\* get_current_user(): the key of the logged-in user, None without one
get_current_user ==
    IF session.user_email # None /\ Lower(session.user_email) \in DOMAIN users
    THEN Lower(session.user_email) ELSE None

\* a request that changes the cart only
CartStep(res, flashes) ==
    /\ \A i \in DOMAIN res.items : res.heap[res.items[i].ref].quantity <= MaxQty
    /\ cart' = res.items
    /\ heap' = Collect(res.heap, res.items, orderObjs)
    /\ notices' = flashes
    /\ UNCHANGED <<users, orders, orderObjs, session>>

\* a request that changes the accounts or the session only
AccountStep(nusers, nsession, flashes) ==
    /\ users' = nusers
    /\ session' = nsession
    /\ notices' = flashes
    /\ UNCHANGED <<cart, heap, orders, orderObjs>>

Same == [items |-> cart, heap |-> heap]

(***************************************************************************)
(* The Cart's methods called directly (as the tests and profile scripts do)*)
(***************************************************************************)
AddBook(book, quantity) ==
    CartStep(add_book(cart, heap, book, quantity), <<>>)

RemoveBook(title) ==
    CartStep(remove_book(cart, heap, title), <<>>)

UpdateQuantity(title, quantity) ==
    CartStep(update_quantity(cart, heap, title, quantity), <<>>)

Clear ==
    CartStep([items |-> clear(cart), heap |-> heap], <<>>)

(***************************************************************************)
(* The cart handlers of app.py                                             *)
(***************************************************************************)
\* request.form.get('quantity', '1'), then int() with 1 for a ValueError
FormQuantity(form) ==
    LET raw == IF form.quantity = None THEN <<"1">> ELSE form.quantity
        r == ParseInt(raw)
    IN  IF r.ok THEN r.v ELSE 1

\* POST /add-to-cart
AddToCart(form) ==
    LET title == sanitize_text(form.title)
        quantity == FormQuantity(form)
        capped == IF quantity > 999 THEN 999 ELSE quantity
        book == get_book_by_title(title)
    IN  IF quantity < 1
        THEN CartStep(Same, << <<"error", "Quantity must be at least 1.">> >>)
        ELSE IF book = NoBook
        THEN CartStep(Same, << <<"error", "Book not found!">> >>)
        ELSE CartStep(add_book(cart, heap, book, PyInt(capped)),
                      << <<"success", "Added {quantity} {title} to cart!">> >>)

\* POST /remove-from-cart
RemoveFromCart(form) ==
    LET title == sanitize_text(form.title)
    IN  CartStep(remove_book(cart, heap, title),
                 << <<"success", "Removed {title} from cart!">> >>)

\* POST /update-cart
UpdateCart(form) ==
    LET title == sanitize_text(form.title)
        quantity == FormQuantity(form)
    IN  CartStep(update_quantity(cart, heap, title, PyInt(quantity)),
                 IF quantity <= 0
                 THEN << <<"success", "Removed {title} from cart!">> >>
                 ELSE << <<"success", "Updated {title} quantity to {quantity}!">> >>)

\* POST /clear-cart
ClearCart ==
    CartStep([items |-> clear(cart), heap |-> heap],
             << <<"success", "Cart cleared!">> >>)

(***************************************************************************)
(* POST /process-checkout.  order_id is what str(uuid.uuid4())[:8].upper()  *)
(* yields: the environment's choice, an id already in use included.        *)
(***************************************************************************)
RequiredFields == <<"name", "email", "address", "city", "zip_code">>

ShippingInfo(form) ==
    [name |-> sanitize_text(form.name),
     email |-> sanitize_text(form.email),
     address |-> sanitize_text(form.address),
     city |-> sanitize_text(form.city),
     zip_code |-> sanitize_text(form.zip_code)]

PaymentInfo(form) ==
    [payment_method |-> Lower(Strip(OrEmpty(form.payment_method))),
     card_number |-> sanitize_text(form.card_number),
     expiry_date |-> sanitize_text(form.expiry_date),
     cvv |-> sanitize_text(form.cvv),
     paypal_email |-> sanitize_text(form.paypal_email)]

\* the handler's checks in order: ok, or the notices of the rejection; the
\* discount block runs (and flashes) before the payment fields are checked
CheckoutOutcome(form, items) ==
    LET shipping_info == ShippingInfo(form)
        payment_info == PaymentInfo(form)
        method == payment_info.payment_method
        discount_code == NormalizeCode(form.discount_code)
        flashed == DiscountNotices(discount_code)
        payment_result == process_payment(payment_info)
        reject(fl) == [ok |-> FALSE, flashes |-> fl]
    IN  IF is_empty(items)
        THEN reject(<< <<"error", "Your cart is empty!">> >>)
        ELSE IF \E i \in DOMAIN RequiredFields : shipping_info[RequiredFields[i]] = <<>>
        THEN reject(<< <<"error", "Please fill in the {f} field.">> >>)
        ELSE IF ~is_valid_email(shipping_info.email)
        THEN reject(<< <<"error", "Please enter a valid email address.">> >>)
        ELSE IF method = CreditCard
                /\ (payment_info.card_number = <<>> \/ payment_info.expiry_date = <<>>
                    \/ payment_info.cvv = <<>>)
        THEN reject(Append(flashed, <<"error", "Please fill in all credit card details.">>))
        ELSE IF method = PayPal
                /\ (payment_info.paypal_email = <<>>
                    \/ ~is_valid_email(payment_info.paypal_email))
        THEN reject(Append(flashed, <<"error", "Please provide a valid PayPal email.">>))
        ELSE IF method \notin {CreditCard, PayPal}
        THEN reject(Append(flashed, <<"error", "Please select a valid payment method.">>))
        ELSE IF ~payment_result.success
        THEN reject(Append(flashed, <<"error", payment_result.message>>))
        ELSE [ok |-> TRUE,
              flashes |-> Append(flashed,
                  <<"success", "Payment successful! Your order has been confirmed.">>),
              shipping_info |-> shipping_info,
              payment_info |-> [method |-> method,
                                transaction_id |-> payment_result.transaction_id],
              discount_code |-> discount_code]

\* total_amount as the handler holds it when the order is created:
\* cart.get_total_price(), then the discount block
CheckoutTotal(items, hp, discount_code) ==
    DiscountedTotal(get_total_price(items, hp), discount_code)

\* Order(order_id, user_email, items, shipping_info, payment_info, total_amount)
Order(order_id, user_email, items, shipping_info, payment_info, total_amount, now) ==
    [order_id |-> order_id,
     user_email |-> user_email,
     items |-> items,
     shipping_info |-> shipping_info,
     payment_info |-> payment_info,
     total_amount |-> total_amount,
     order_date |-> now,
     status |-> "Confirmed"]

\* datetime.datetime.now(): later orders carry later dates
Now == Len(orderObjs) + 1

\* the order is created, stored, added to the user's history; the cart is
\* cleared and the session remembers the order
PlaceOrder(order) ==
    LET objs == Append(orderObjs, order)
        ref == Len(objs)
        current_user == get_current_user
        cleared == clear(cart)
    IN  /\ orderObjs' = objs
        /\ orders' = [id \in DOMAIN orders \cup {order.order_id} |->
                         IF id = order.order_id THEN ref ELSE orders[id]]
        /\ users' = IF current_user = None THEN users
                    ELSE [users EXCEPT ![current_user].orders = add_order(@, ref, objs)]
        /\ cart' = cleared
        /\ heap' = Collect(heap, cleared, objs)
        /\ session' = [session EXCEPT !.last_order_id = order.order_id]

ProcessCheckout(form, order_id) ==
    \E out \in {CheckoutOutcome(form, cart)} :
        IF ~out.ok
        THEN CartStep(Same, out.flashes)
        ELSE /\ Len(orderObjs) < MaxOrders
             /\ \E total_amount \in {CheckoutTotal(cart, heap, out.discount_code)} :
                    PlaceOrder(Order(order_id, out.shipping_info.email, get_items(cart),
                                     out.shipping_info, out.payment_info, total_amount, Now))
             /\ notices' = out.flashes

(***************************************************************************)
(* Accounts                                                                *)
(***************************************************************************)
\* POST /register
Register(form) ==
    LET email == sanitize_text(form.email)
        password == OrEmpty(form.password)
        name == sanitize_text(form.name)
        address == sanitize_text(form.address)
        key == UserKey(email)
    IN  IF email = <<>> \/ password = <<>> \/ name = <<>>
        THEN AccountStep(users, session,
                 << <<"error", "Please fill in all required fields.">> >>)
        ELSE IF ~is_valid_email(email)
        THEN AccountStep(users, session,
                 << <<"error", "Please enter a valid email address.">> >>)
        ELSE IF key \in DOMAIN users
        THEN AccountStep(users, session,
                 << <<"error", "An account with this email already exists.">> >>)
        ELSE AccountStep(
                 [k \in DOMAIN users \cup {key} |->
                     IF k = key THEN User(email, password, name, address) ELSE users[k]],
                 [session EXCEPT !.user_email = email],
                 << <<"success", "Account created successfully! You are now logged in.">> >>)

\* POST /login
Login(form) ==
    LET email == sanitize_text(form.email)
        password == OrEmpty(form.password)
        key == Lower(email)
    IN  IF key \in DOMAIN users /\ check_password(users[key], password)
        THEN AccountStep(users, [session EXCEPT !.user_email = users[key].email],
                 << <<"success", "Logged in successfully!">> >>)
        ELSE AccountStep(users, session,
                 << <<"error", "Invalid email or password.">> >>)

\* GET /logout
Logout ==
    AccountStep(users, [session EXCEPT !.user_email = None],
        << <<"success", "Logged out successfully!">> >>)

\* POST /update-profile (login_required)
UpdateProfile(form) ==
    LET key == get_current_user
    IN  IF session.user_email = None
        THEN AccountStep(users, session,
                 << <<"error", "Please log in to access this page.">> >>)
        ELSE LET u == users[key]
                 name == IF form.name = None THEN Strip(u.name) ELSE sanitize_text(form.name)
                 address == IF form.address = None THEN Strip(u.address)
                            ELSE sanitize_text(form.address)
                 changes == form.new_password # None /\ form.new_password # <<>>
             IN  AccountStep(
                     [users EXCEPT ![key] =
                         [u EXCEPT !.name = name, !.address = address,
                                   !.password_hash =
                                       IF changes THEN set_password(form.new_password)
                                       ELSE @]],
                     session,
                     IF changes THEN << <<"success", "Password updated successfully!">> >>
                     ELSE << <<"success", "Profile updated successfully!">> >>)

(***************************************************************************)
(* History.  A specification either records each request in last (and the  *)
(* cart's lines as the request found them in before), or leaves both alone.*)
(***************************************************************************)
Logged(req) == last' = req /\ before' = CartView(cart, heap)
Quiet == UNCHANGED <<last, before>>

\* an id the truncated uuid can be: one never used, or one already in use
FreshId == Len(orderObjs) + 1
OrderIds == DOMAIN orders \cup {FreshId}

(***************************************************************************)
(* The requests the model draws from                                       *)
(***************************************************************************)
UnknownTitle == <<"D", "u", "n", "e">>
Padded(s) == <<" ">> \o s \o <<" ">>

\* quantity arguments of direct calls: ints around the boundary and a str
CallQuantities == {PyInt(n) : n \in (0 - 1)..MaxQty} \cup {PyStr(<<"x">>)}

CustName == <<"A", "l">>
CustEmail == <<"a", "l", "@", "e", "x", ".", "i", "o">>
CustAddress == <<"1", " ", "S", "t">>
CustCity == <<"E", "l", "y">>
CustZip == <<"1">>
GoodCard == <<"4", "2", "4", "2", " ", "4", "2", "4", "2", " ", "4", "2", "4", "2", " ", "4", "2", "4", "2">>
SuffixCard == <<"4", "2", "4", "2", "4", "2", "4", "2", "1", "1", "1", "1">>
SpacedSuffixCard == <<"4", "2", "4", "2", " ", "4", "2", "4", "2", " ", "1", "1", " ", "1", "1">>
ShortCard == <<"4", "2", "4", "2">>
GoodExpiry == <<"1", "2", "/", "2", "5">>
LongExpiry == <<"0", "1", "/", "2", "0", "3", "0">>
BadExpiry == <<"1", "3", "/", "2", "5">>
GoodCvv == <<"1", "2", "3">>
BadCvv == <<"1", "2">>
BadEmail == <<"a", "l", "@", "e", "x">>
Bogus == <<"B", "O", "G", "U", "S">>
Blank == <<" ", " ">>
Save10Typed == <<" ", "s", "a", "v", "e", "1", "0", " ">>
Welcome20Typed == <<"W", "e", "l", "c", "o", "m", "e", "2", "0">>

\* a card checkout every check accepts
CardForm ==
    [name |-> CustName, email |-> CustEmail, address |-> CustAddress,
     city |-> CustCity, zip_code |-> CustZip,
     payment_method |-> CreditCard, card_number |-> GoodCard,
     expiry_date |-> GoodExpiry, cvv |-> GoodCvv, paypal_email |-> None,
     discount_code |-> None]

\* a PayPal checkout every check accepts
PayPalForm ==
    [CardForm EXCEPT !.payment_method = <<"P", "a", "y", "P", "a", "l", " ">>, !.card_number = None,
                     !.expiry_date = None, !.cvv = None, !.paypal_email = CustEmail]

NewEmail == <<"a", "@", "b", ".", "c", "o">>
NewEmailUpper == <<"A", "@", "B", ".", "c", "o">>
DemoEmailUpper == <<"D", "e", "m", "o", "@", "B", "o", "o", "k", "s", "t", "o", "r", "e", ".", "c", "o", "m">>
GoodPassword == <<"a", "b", "c", "d">>
ShortPassword == <<"a", "b">>
BlankPassword == <<" ", " ", " ", " ">>
OtherPassword == <<"w", "x", "y", "z">>
NewName == <<"N">>
OtherName == <<"M">>

(***************************************************************************)
(* SpecCart: the cart alone, its methods called directly and its four      *)
(* handlers, on three titles; every request is recorded.                   *)
(***************************************************************************)
CartBooks == {1, 2, 3}
CartTitles == {BOOKS[b].title : b \in CartBooks} \cup {UnknownTitle}
CartAddForms == [title : {Padded(NineteenEightyFour), None}, quantity : {<<"1">>, <<"0">>, <<"x">>}]
CartUpdateForms == [title : {Padded(NineteenEightyFour), None}, quantity : {<<" ", "2">>, <<"0">>, None}]
CartRemoveForms == [title : {Padded(NineteenEightyFour), UnknownTitle}]

NextCart ==
    \/ \E b \in CartBooks, q \in CallQuantities :
          AddBook(b, q) /\ Logged([op |-> "add_book", book |-> b, quantity |-> q])
    \/ \E t \in CartTitles :
          RemoveBook(t) /\ Logged([op |-> "remove_book", title |-> t])
    \/ \E t \in CartTitles, q \in CallQuantities :
          UpdateQuantity(t, q) /\ Logged([op |-> "update_quantity", title |-> t, quantity |-> q])
    \/ Clear /\ Logged([op |-> "clear"])
    \/ \E f \in CartAddForms : AddToCart(f) /\ Logged([op |-> "add_to_cart", form |-> f])
    \/ \E f \in CartRemoveForms :
          RemoveFromCart(f) /\ Logged([op |-> "remove_from_cart", form |-> f])
    \/ \E f \in CartUpdateForms : UpdateCart(f) /\ Logged([op |-> "update_cart", form |-> f])
    \/ ClearCart /\ Logged([op |-> "clear_cart"])

SpecCart == Init /\ [][NextCart]_vars

(***************************************************************************)
(* Spec: the shop.  Every operation of the cart, checkout and the session, *)
(* on one title; requests are not recorded.                                *)
(***************************************************************************)
ShopTitle == NineteenEightyFour
ShopBook == get_book_by_title(ShopTitle)
ShopAddForms == [title : {Padded(ShopTitle)}, quantity : {<<"1">>, <<"0">>}]
ShopUpdateForms == [title : {Padded(ShopTitle)}, quantity : {<<"0">>, <<" ", "2">>}]
ShopRemoveForms == [title : {Padded(ShopTitle)}]

ShopCheckoutForms ==
    {CardForm, [CardForm EXCEPT !.discount_code = Save10Typed],
     [CardForm EXCEPT !.card_number = SuffixCard], [CardForm EXCEPT !.name = Blank]}

ShopLoginForms == {[email |-> DemoEmailUpper, password |-> DemoPassword],
                   [email |-> DemoEmail, password |-> GoodPassword]}
ShopRegisterForms == {[email |-> NewEmail, password |-> GoodPassword,
                       name |-> NewName, address |-> None]}
ShopProfileForms == {[name |-> NewName, address |-> None, new_password |-> None]}

Next ==
    \/ \E q \in {PyInt(0), PyInt(1)} : AddBook(ShopBook, q) /\ Quiet
    \/ RemoveBook(ShopTitle) /\ Quiet
    \/ \E q \in {PyInt(0), PyInt(2)} : UpdateQuantity(ShopTitle, q) /\ Quiet
    \/ Clear /\ Quiet
    \/ \E f \in ShopAddForms : AddToCart(f) /\ Quiet
    \/ \E f \in ShopRemoveForms : RemoveFromCart(f) /\ Quiet
    \/ \E f \in ShopUpdateForms : UpdateCart(f) /\ Quiet
    \/ ClearCart /\ Quiet
    \/ \E f \in ShopCheckoutForms, id \in OrderIds : ProcessCheckout(f, id) /\ Quiet
    \/ \E f \in ShopRegisterForms : Register(f) /\ Quiet
    \/ \E f \in ShopLoginForms : Login(f) /\ Quiet
    \/ Logout /\ Quiet
    \/ \E f \in ShopProfileForms : UpdateProfile(f) /\ Quiet

Spec == Init /\ [][Next]_vars

(***************************************************************************)
(* SpecCheckout: a cart of one title filled through its handlers, and      *)
(* checkout with every kind of form; every request is recorded.            *)
(***************************************************************************)
Empty == <<>>
Unsupported == <<"c", "a", "s", "h">>

CheckoutCodes == {None, Empty, Blank, Bogus, Save10Typed}
CheckoutCards == {SuffixCard, Padded(SuffixCard), SpacedSuffixCard, ShortCard, None}

CheckoutForms ==
    {[CardForm EXCEPT !.discount_code = c] : c \in CheckoutCodes}
    \cup {[CardForm EXCEPT !.card_number = n] : n \in CheckoutCards}
    \cup {[CardForm EXCEPT !.card_number = SuffixCard, !.discount_code = Bogus],
          [CardForm EXCEPT !.expiry_date = BadExpiry],
          [CardForm EXCEPT !.expiry_date = LongExpiry, !.cvv = BadCvv],
          [CardForm EXCEPT !.name = Blank],
          [CardForm EXCEPT !.email = BadEmail],
          [CardForm EXCEPT !.payment_method = Unsupported, !.discount_code = Bogus],
          PayPalForm,
          [PayPalForm EXCEPT !.paypal_email = BadEmail, !.discount_code = Bogus]}

NextCheckout ==
    \/ \E f \in ShopAddForms : AddToCart(f) /\ Logged([op |-> "add_to_cart", form |-> f])
    \/ \E f \in ShopUpdateForms : UpdateCart(f) /\ Logged([op |-> "update_cart", form |-> f])
    \/ \E f \in CheckoutForms, id \in OrderIds :
          ProcessCheckout(f, id)
          /\ Logged([op |-> "process_checkout", form |-> f, order_id |-> id])

SpecCheckout == Init /\ [][NextCheckout]_vars

(***************************************************************************)
(* SpecAccounts: registration, login, logout and the profile; every        *)
(* request is recorded.                                                    *)
(***************************************************************************)
RegisterForms ==
    [email : {NewEmail, Padded(NewEmailUpper), DemoEmailUpper, BadEmail, None},
     password : {GoodPassword, ShortPassword, BlankPassword, None},
     name : {NewName, None},
     address : {None}]

LoginForms ==
    [email : {DemoEmailUpper, NewEmail, NewEmailUpper},
     password : {DemoPassword, GoodPassword, ShortPassword, FallbackPassword, OtherPassword}]

ProfileForms ==
    [name : {None, OtherName}, address : {None},
     new_password : {None, OtherPassword, ShortPassword}]

NextAccounts ==
    \/ \E f \in RegisterForms : Register(f) /\ Logged([op |-> "register", form |-> f])
    \/ \E f \in LoginForms : Login(f) /\ Logged([op |-> "login", form |-> f])
    \/ Logout /\ Logged([op |-> "logout"])
    \/ \E f \in ProfileForms :
          UpdateProfile(f) /\ Logged([op |-> "update_profile", form |-> f])

SpecAccounts == Init /\ [][NextAccounts]_vars

(***************************************************************************)
(* SpecOrders: a cart of one title, checkouts that succeed and checkouts   *)
(* that fail in each way, by a guest and by the demo user; every request   *)
(* is recorded.                                                            *)
(***************************************************************************)
OrdersCheckoutForms ==
    ShopCheckoutForms
    \cup {[CardForm EXCEPT !.email = BadEmail],
          [CardForm EXCEPT !.card_number = None],
          [CardForm EXCEPT !.cvv = BadCvv],
          [CardForm EXCEPT !.payment_method = Unsupported],
          [PayPalForm EXCEPT !.paypal_email = BadEmail]}

NextOrders ==
    \/ \E f \in ShopAddForms : AddToCart(f) /\ Logged([op |-> "add_to_cart", form |-> f])
    \/ \E f \in ShopUpdateForms : UpdateCart(f) /\ Logged([op |-> "update_cart", form |-> f])
    \/ \E f \in OrdersCheckoutForms, id \in OrderIds :
          ProcessCheckout(f, id)
          /\ Logged([op |-> "process_checkout", form |-> f, order_id |-> id])
    \/ \E f \in ShopLoginForms : Login(f) /\ Logged([op |-> "login", form |-> f])
    \/ Logout /\ Logged([op |-> "logout"])

SpecOrders == Init /\ [][NextOrders]_vars

(***************************************************************************)
(* What the claims are stated with                                         *)
(***************************************************************************)
\* the cart's lines now
Lines == CartView(cart, heap)

\* the quantity a view holds for a title, 0 when the title is no key of it
QtyIn(view, title) ==
    IF \E i \in DOMAIN view : view[i].title = title
    THEN view[CHOOSE i \in DOMAIN view : view[i].title = title].quantity
    ELSE 0

AllTitles == {BOOKS[b].title : b \in DOMAIN BOOKS} \cup {UnknownTitle}

\* the lines of every title but one are as the request found them
OthersUnchanged(title) ==
    /\ \A t \in AllTitles \ {title} : QtyIn(Lines, t) = QtyIn(before, t)
    /\ SelectSeq(Lines, LAMBDA l : l.title # title)
           = SelectSeq(before, LAMBDA l : l.title # title)

\* the exact worth of a view in cents
RECURSIVE Cents(_, _)
Cents(view, n) ==
    IF n = 0 THEN 0
    ELSE Cents(view, n - 1)
         + view[n].quantity * PriceCents[get_book_by_title(view[n].title)]

\* the orderings of a cart's entries
Orderings(items) ==
    {p \in [DOMAIN items -> Range(items)] : \A i, j \in DOMAIN items : p[i] = p[j] => i = j}

(***************************************************************************)
(* The cart (SpecCart)                                                     *)
(***************************************************************************)
\* C2: add_book(book, qty) with an int qty leaves the line of the book's
\* title with its old quantity (0 when the title was no key) plus the
\* effective quantity, qty clamped to at least 1, and leaves the lines of
\* every other title as they were.
AddBookAccumulates ==
    (last.op = "add_book" /\ last.quantity.kind = "int") =>
        LET title == BOOKS[last.book].title
            effective == IF last.quantity.v < 1 THEN 1 ELSE last.quantity.v
        IN  /\ QtyIn(Lines, title) = QtyIn(before, title) + effective
            /\ OthersUnchanged(title)

\* C2 witness: a second add of a title whose line held 1, with the quantity
\* 0 that is clamped to 1, beside the line of another title: the line holds 2
AddBookAccumulated ==
    /\ last.op = "add_book"
    /\ last.quantity = PyInt(0)
    /\ QtyIn(before, BOOKS[last.book].title) = 1
    /\ QtyIn(Lines, BOOKS[last.book].title) = 2
    /\ Len(Lines) = 2

\* C3: update_quantity(title, qty) with an int qty: qty <= 0 leaves title no
\* key of the cart, qty >= 1 overwrites the quantity of title's line, a title
\* that is no key changes nothing; the lines of other titles are unchanged.
UpdateQuantitySetsOrRemoves ==
    (last.op = "update_quantity" /\ last.quantity.kind = "int") =>
        LET title == last.title
            qty == last.quantity.v
        IN  /\ qty <= 0 => QtyIn(Lines, title) = 0
            /\ (qty >= 1 /\ QtyIn(before, title) > 0) => QtyIn(Lines, title) = qty
            /\ QtyIn(before, title) = 0 => Lines = before
            /\ OthersUnchanged(title)

\* C3 witness: update_quantity(title, 0) on a title that had a line, beside
\* the line of another title: the line is gone, the other one remains
UpdateQuantityRemoved ==
    /\ last.op = "update_quantity"
    /\ last.quantity = PyInt(0)
    /\ QtyIn(before, last.title) >= 1
    /\ QtyIn(Lines, last.title) = 0
    /\ Len(before) = 2
    /\ Len(Lines) = 1

\* C10: get_total_price() is the sum of price x quantity over the cart's
\* lines (8.99 + 18.99 is 27.98: the double nearest the exact sum), and is
\* the same whatever order the lines were added in.
TotalIsSumInAnyOrder ==
    /\ get_total_price(cart, heap) = FFromRatio(FromNat(Cents(Lines, Len(Lines))), 100)
    /\ \A p \in Orderings(cart) : get_total_price(p, heap) = get_total_price(cart, heap)

(***************************************************************************)
(* Checkout (SpecCheckout)                                                 *)
(***************************************************************************)
\* a cart with the lines of a view, each line an object of its own
ViewItems(view) == [i \in DOMAIN view |-> [title |-> view[i].title, ref |-> i]]
ViewHeap(view) ==
    [i \in DOMAIN view |->
        [book |-> get_book_by_title(view[i].title), quantity |-> view[i].quantity]]

\* what get_total_price() returned on the cart the request found
TotalBefore == get_total_price(ViewItems(before), ViewHeap(before))

\* the last request was a checkout that found lines in the cart
CheckedOut == last.op = "process_checkout" /\ before # <<>>

\* the order created last, and its lines
NewestOrder == orderObjs[Len(orderObjs)]
OrderLines(order) ==
    [i \in DOMAIN order.items |->
        [title |-> BOOKS[heap[order.items[i]].book].title,
         quantity |-> heap[order.items[i]].quantity]]

\* the last request was a checkout that succeeded: the order is stored under
\* its id with the lines the cart held, the cart is empty
Succeeded ==
    /\ CheckedOut
    /\ cart = <<>>
    /\ last.order_id \in DOMAIN orders
    /\ orders[last.order_id] = Len(orderObjs)
    /\ NewestOrder.order_id = last.order_id
    /\ OrderLines(NewestOrder) = before

\* the step is a checkout of a form, on a cart that has lines
CheckingOut(form) ==
    /\ last'.op = "process_checkout"
    /\ last'.form = form
    /\ cart # <<>>

\* the step stores no order and leaves the cart alone
NothingStored ==
    /\ orders' = orders
    /\ orderObjs' = orderObjs
    /\ cart' = cart
    /\ heap' = heap
    /\ users' = users
    /\ session' = session

\* a card form the gateway's format checks accept, whose number's digits
\* (spaces ignored) end in the rejection suffix
SuffixForms ==
    {f \in CheckoutForms :
        /\ Lower(Strip(OrEmpty(f.payment_method))) = CreditCard
        /\ _valid_card_number(Strip(OrEmpty(f.card_number)))
        /\ EndsWith(RemoveSpaces(OrEmpty(f.card_number)), RejectSuffix)
        /\ _valid_expiry(f.expiry_date)
        /\ _valid_cvv(f.cvv)}

\* C4: a card payment whose number passes the format check and whose digits
\* end in 1111 fails: process_payment returns success = False, and the
\* checkout stores no order and does not clear the cart.
SuffixCardAlwaysFails ==
    [][\A f \in SuffixForms :
          CheckingOut(f) => (~process_payment(PaymentInfo(f)).success /\ NothingStored)]_vars

\* C7: a successful checkout whose code normalizes to SAVE10 stores the
\* pre-discount total, the sum of price x quantity of the lines, less exactly
\* 10% of it (8.99 becomes 8.091); one without a code stores the pre-discount
\* total.
Save10TakesTenPercent ==
    Succeeded =>
        LET code == NormalizeCode(last.form.discount_code)
            cents == Cents(before, Len(before))
        IN  /\ code = SAVE10 =>
                   NewestOrder.total_amount = FFromRatio(FromNat(9 * cents), 1000)
            /\ code = <<>> => NewestOrder.total_amount = FFromRatio(FromNat(cents), 100)

\* the form without its discount code passes every check of the handler and
\* its payment is approved
ValidWithoutCode(form) ==
    CheckoutOutcome([form EXCEPT !.discount_code = None], ViewItems(before)).ok

\* the checkout went through with the warning and the undiscounted total
WentThroughWithWarning ==
    /\ Succeeded
    /\ <<"error", "Invalid discount code.">> \in Range(notices)
    /\ <<"success", "Payment successful! Your order has been confirmed.">> \in Range(notices)
    /\ NewestOrder.total_amount = TotalBefore

\* the code is none of the table's, normalized as the handler does
Unrecognized(raw) == ~KnownCode(NormalizeCode(raw))

Registering(form) == last'.op = "register" /\ last'.form = form

\* the step creates no account and leaves the session as it was
NoAccountCreated == users' = users /\ session' = session

\* the email of the form is the email of an existing account but for the
\* case of its letters
CaseDuplicate(form) ==
    /\ form.email # None
    /\ \E k \in DOMAIN users : Lower(Strip(form.email)) = Lower(users[k].email)

\* every key of users is the lowercased email of its account, so no two
\* accounts have emails equal but for case
KeyedByLowerEmail ==
    /\ \A k \in DOMAIN users : k = Lower(users[k].email)
    /\ \A j, k \in DOMAIN users : Lower(users[j].email) = Lower(users[k].email) => j = k

\* C6: a registration whose email equals an existing account's but for
\* letter case is rejected: users (and so the account's password, name and
\* address) and the session are as they were, the request logs nobody in
\* (a form otherwise complete is told the account already exists); every key of users is always the lowercased email of its account and no
\* two accounts have emails equal ignoring case.
CaseDuplicateRejected ==
    /\ []KeyedByLowerEmail
    /\ [][\A f \in RegisterForms :
             (Registering(f) /\ CaseDuplicate(f)) =>
                 /\ NoAccountCreated
                 /\ (OrEmpty(f.password) # <<>> /\ OrEmpty(f.name) # <<>>) =>
                        notices' = << <<"error", "An account with this email already exists.">> >>
         ]_vars

\* C6 witness: a registration as A@B.co was refused when a@b.co was an
\* account and nobody was logged in
CaseDuplicateRefused ==
    /\ last.op = "register"
    /\ last.form.email = Padded(NewEmailUpper)
    /\ last.form.password = GoodPassword
    /\ last.form.name = NewName
    /\ NewEmail \in DOMAIN users
    /\ users[NewEmail].email = NewEmail
    /\ DOMAIN users = {DemoEmail, NewEmail}
    /\ session.user_email = None
    /\ notices = << <<"error", "An account with this email already exists.">> >>

\* a form registration is to refuse as weak: email, password or name
\* missing, the email malformed, or the password shorter than 4 characters
Weak(form) ==
    \/ OrEmpty(form.email) = <<>>
    \/ OrEmpty(form.password) = <<>>
    \/ OrEmpty(form.name) = <<>>
    \/ ~is_valid_email(form.email)
    \/ Len(OrEmpty(form.password)) < 4

\* C9: a registration with weak input creates no account and does not log
\* the session in; the account a registration creates can be logged into
\* with the password the registration submitted.
WeakRegistrationRejected ==
    [][\A f \in RegisterForms :
          Registering(f) =>
              /\ Weak(f) => NoAccountCreated
              /\ users' # users =>
                     check_password(users'[UserKey(sanitize_text(f.email))],
                                    OrEmpty(f.password))
      ]_vars

(***************************************************************************)
(* The shop (Spec)                                                         *)
(***************************************************************************)
\* C1: every line of the cart holds a quantity of at least 1, whatever cart
\* methods and handlers ran, checkout included.
QuantitiesAtLeastOne ==
    \A i \in DOMAIN cart : heap[cart[i].ref].quantity >= 1

\* C1 witness: after a checkout the cart holds a line again, and an
\* add-to-cart of quantity 0 has just been refused
ZeroRefusedOnFilledCart ==
    /\ Len(orderObjs) >= 1
    /\ Len(cart) = 1
    /\ heap[cart[1].ref].quantity = MaxQty
    /\ notices = << <<"error", "Quantity must be at least 1.">> >>

\* what an order records: lines, total, buyer and shipping
OrderRecord(o) ==
    [lines |-> OrderLines(orderObjs[o]),
     total_amount |-> orderObjs[o].total_amount,
     user_email |-> orderObjs[o].user_email,
     shipping_info |-> orderObjs[o].shipping_info]

\* C5: no step changes the lines (titles and quantities), the total, the
\* buyer email or the shipping info of an order that exists, though the
\* order holds the CartItem objects the cart held.
OrdersAreSnapshots ==
    [][\A o \in DOMAIN orderObjs : OrderRecord(o)' = OrderRecord(o)]_vars

\* C5 witness: two orders of the same title with different quantities, the
\* first in the history of the demo user, while the cart holds the title
\* again with a quantity that is not the first order's
OrderOutlivesCart ==
    /\ Len(orderObjs) = 2
    /\ OrderLines(orderObjs[1]) # OrderLines(orderObjs[2])
    /\ Lines # <<>>
    /\ Lines # OrderLines(orderObjs[1])
    /\ Lines[1].title = OrderLines(orderObjs[1])[1].title
    /\ 1 \in Range(users[DemoEmail].orders)

(***************************************************************************)
(* Checkout as a whole (SpecOrders)                                        *)
(***************************************************************************)
\* every user's order history
Histories == [k \in DOMAIN users |-> users[k].orders]

\* the step is a checkout that the handler confirms / that it turns down
Confirmed ==
    <<"success", "Payment successful! Your order has been confirmed.">> \in Range(notices)
CheckoutSucceeds == last'.op = "process_checkout" /\ Confirmed'
CheckoutFails == last'.op = "process_checkout" /\ ~Confirmed'

\* a failed checkout leaves the cart, the orders, every history and the
\* session's last order id as they were
FailureChangesNothing ==
    CheckoutFails =>
        /\ Lines' = Lines
        /\ cart' = cart
        /\ orders' = orders
        /\ orderObjs' = orderObjs
        /\ Histories' = Histories
        /\ session'.last_order_id = session.last_order_id

\* a successful checkout creates an order of the cart's lines (one at
\* least), stores it under its id, appends it to the history of the user
\* logged in and to no other, and leaves the cart empty
SuccessStoresTheCart ==
    CheckoutSucceeds =>
        /\ Lines # <<>>
        /\ Len(orderObjs') = Len(orderObjs) + 1
        /\ SubSeq(orderObjs', 1, Len(orderObjs)) = orderObjs
        /\ OrderLines(NewestOrder)' = Lines
        /\ last'.order_id \in DOMAIN orders'
        /\ orders'[last'.order_id] = Len(orderObjs')
        /\ session'.last_order_id = last'.order_id
        /\ \A k \in DOMAIN users :
               Histories'[k] = IF k = get_current_user
                               THEN Append(Histories[k], Len(orderObjs'))
                               ELSE Histories[k]
        /\ cart' = <<>>

\* a successful checkout adds one entry to the orders map and keeps the
\* entries the map had
SuccessAddsOneOrder ==
    CheckoutSucceeds =>
        /\ Cardinality(DOMAIN orders') = Cardinality(DOMAIN orders) + 1
        /\ \A id \in DOMAIN orders : id \in DOMAIN orders' /\ orders'[id] = orders[id]

\* all of it but the count of the orders map
CheckoutAllOrNothingButCount ==
    [][FailureChangesNothing /\ SuccessStoresTheCart]_vars

\* C11: process_checkout is all-or-nothing: a checkout that fails leaves the
\* cart, the orders map, every user's order history and the session's last
\* order id unchanged; one that succeeds adds exactly one order to the
\* orders map, whose lines are the cart's lines (one at least), appends it
\* to the history of the logged-in user, and leaves the cart empty.
CheckoutAllOrNothing ==
    [][FailureChangesNothing /\ SuccessStoresTheCart /\ SuccessAddsOneOrder]_vars
====
